---- MODULE Spec2Model ----
(***************************************************************************)
(* hashsearch (src/src/main.rs): a coordinator thread builds a 256-bit    *)
(* mask, spawns W worker threads that hash the positive integers in        *)
(* interleaved batches and send the matches on an unbounded channel, and   *)
(* prints the first K matches it receives.                                 *)
(*                                                                         *)
(* Representation.  A u8 array is a function on 0..len-1.  A u64 is the    *)
(* function on 0..7 of its base-256 digits, digit 0 the least significant  *)
(* (a 64-bit number does not fit the integers of TLC).  SHA-256 is an      *)
(* external crate: sha is an arbitrary function from candidates to         *)
(* digests, fixed for a whole behaviour.                                   *)
(***************************************************************************)
EXTENDS Integers, Sequences, FiniteSets, TLC

(* ------------------------------ bounds -------------------------------- *)

\* main.rs:44 has BATCH_SIZE = 100; the model runs the same loop on a
\* scaled-down batch.
BATCH_SIZE == 2

\* worker counts 0..MaxWorkers are explored
MaxWorkers == 2

\* requested match counts 0..MaxCount are explored
MaxCount == 3

\* The candidate cursor is a 64-bit usize; the behaviours explored are those
\* in which no worker has yet gone past candidate MaxCand (no overflow).
MaxCand == 6

\* num_zeros of the concurrent search ranges over 0..MaxNumZeros and the
\* largest count a digest can satisfy, 64
MaxNumZeros == 1

\* num_zeros of the mask specification ranges over 0..MaxMaskZeros
MaxMaskZeros == 66

\* usize is 64 bits wide on the usual targets; the wrapping specification
\* runs the cursor arithmetic of main.rs:54-58 and main.rs:86 on a usize of
\* UsizeBits bits
UsizeBits == 3

(* -------------------------- program constants ------------------------- *)

\* bytes of a SHA-256 digest, and of the mask (main.rs:98, main.rs:104)
DIGEST_BYTES == 32

\* hex characters of a rendered digest
DIGEST_NIBBLES == 64

\* u64 words of a digest / of the mask (main.rs:71, main.rs:95)
MASK_WORDS == 4

\* bytes of a u64
WORD_BYTES == 8

VARIABLES
    num_zeros,      \* argument of search
    quota,          \* the value of count when search was called (K)
    workers,        \* argument of search
    little_endian,  \* byte order of the target the program was built for
    overflow_checks, \* the build panics on integer overflow (else it wraps)
    sha,            \* the digest of every candidate
    count,          \* search's mutable count: matches still to print
    pc,             \* coordinator: Idle, MaskBuilt, Collecting, Done, Panicked
    exited,         \* the process has ended (main returned or panicked)
    mask,           \* result of make_check_mask, NoMask before it is built
    spawned,        \* loop variable i of spawn_workers: threads spawned so far
    senders,        \* live Sender handles of the channel
    rx_alive,       \* the Receiver has not been dropped
    queue,          \* messages in the channel, oldest first
    printed,        \* lines written to standard output, oldest first
    w_pc,           \* per worker: unspawned, hash, drain, stopped, panicked
    w_start,        \* per worker: start
    results_buf,    \* per worker: results_buf
    examined,       \* history: per worker, candidates hashed, in order
    pushed,         \* history: per worker, candidates pushed to results_buf
    sent_log,       \* history: every message accepted by the channel, in order
    refused,        \* history: per worker, sends refused by the channel
    probe,          \* mask specification: the digest under test
    probe_valid     \* mask specification: untested, valid, invalid

vars == << num_zeros, quota, workers, little_endian, overflow_checks, sha,
           count, pc, exited,
           mask, spawned, senders, rx_alive, queue, printed, w_pc, w_start,
           results_buf, examined, pushed, sent_log, refused, probe,
           probe_valid >>

WorkerIds == 0 .. (MaxWorkers - 1)
\* the candidates of the batches that lie entirely within 1 .. MaxCand
Candidates == 1 .. (BATCH_SIZE * (MaxCand \div BATCH_SIZE))
NoMask == << >>

(* ------------------------- bytes, words, hex -------------------------- *)

RECURSIVE BitAnd(_, _, _)
\* a & b on the low `bits` bits
BitAnd(a, b, bits) ==
    IF bits = 0 THEN 0
    ELSE ((a % 2) * (b % 2)) + 2 * BitAnd(a \div 2, b \div 2, bits - 1)

RECURSIVE PopCount(_)
PopCount(b) == IF b = 0 THEN 0 ELSE (b % 2) + PopCount(b \div 2)

\* digit s of word j of transmute::<[u8; 32], [u64; 4]>(bytes): word j is
\* memory bytes 8j .. 8j+7, read in the byte order of the target
WordByte(bytes, j, s, le) ==
    bytes[(WORD_BYTES * j) + (IF le THEN s ELSE WORD_BYTES - 1 - s)]

\* transmute::<[u8; 32], [u64; 4]>
transmute(bytes, le) ==
    [j \in 0 .. (MASK_WORDS - 1) |->
        [s \in 0 .. (WORD_BYTES - 1) |-> WordByte(bytes, j, s, le)]]

\* the memory bytes of a [u64; 4], in address order
MemoryBytes(words, le) ==
    [i \in 0 .. (DIGEST_BYTES - 1) |->
        words[i \div WORD_BYTES]
             [IF le THEN (i % WORD_BYTES) ELSE WORD_BYTES - 1 - (i % WORD_BYTES)]]

RECURSIVE NibbleAndRow(_, _)
\* << a & 0, a & 1, ..., a & (len - 1) >> for a nibble a
NibbleAndRow(a, len) ==
    IF len = 0 THEN << >> ELSE Append(NibbleAndRow(a, len - 1), BitAnd(a, len - 1, 4))

RECURSIVE NibbleAndRows(_)
NibbleAndRows(len) ==
    IF len = 0 THEN << >> ELSE Append(NibbleAndRows(len - 1), NibbleAndRow(len - 1, 16))

\* the table of & on nibbles, computed once
NibbleAnd == NibbleAndRows(16)

\* a & b on u8, nibble by nibble
AndByte(a, b) ==
    (16 * NibbleAnd[(a \div 16) + 1][(b \div 16) + 1]) + NibbleAnd[(a % 16) + 1][(b % 16) + 1]

\* hb & mb on u64
AndWord(hb, mb) == [s \in 0 .. (WORD_BYTES - 1) |-> AndByte(hb[s], mb[s])]

IsZeroWord(w) == \A s \in 0 .. (WORD_BYTES - 1) : w[s] = 0

HexDigit(v) ==
    << "0", "1", "2", "3", "4", "5", "6", "7",
       "8", "9", "a", "b", "c", "d", "e", "f" >>[v + 1]

\* format!("{hash:x}"): two lowercase hex characters per byte, high nibble
\* first, bytes in array order
Hex(hash) ==
    [c \in 1 .. DIGEST_NIBBLES |->
        LET b == hash[(c - 1) \div 2]
        IN  HexDigit(IF (c % 2) = 1 THEN (b \div 16) ELSE (b % 16))]

(* --------------------------- make_check_mask -------------------------- *)

\* make_check_mask with the boundary byte covering the high nibble
make_check_mask_bytes_HighNibble(nz) ==
    LET bytes_to_check == (nz \div 2) + (nz % 2)
        extra_nibble   == (nz % 2) # 0
    IN  [i \in 0 .. (DIGEST_BYTES - 1) |->
            LET ri == DIGEST_BYTES - i
            IN  IF ri = bytes_to_check /\ extra_nibble THEN 240
                ELSE IF ri <= bytes_to_check THEN 255
                ELSE 0]

\* a mask that checks one byte more than asked
make_check_mask_bytes_OneMore(nz) ==
    LET bytes_to_check == (nz \div 2) + (nz % 2)
        extra_nibble   == (nz % 2) # 0
    IN  [i \in 0 .. (DIGEST_BYTES - 1) |->
            LET ri == DIGEST_BYTES - i
            IN  IF ri = bytes_to_check /\ extra_nibble THEN 15
                ELSE IF ri <= bytes_to_check + 1 THEN 255
                ELSE 0]

make_check_mask_bytes(nz) ==
    LET bytes_to_check == (nz \div 2) + (nz % 2)
        extra_nibble   == (nz % 2) # 0
    IN  [i \in 0 .. (DIGEST_BYTES - 1) |->
            LET ri == DIGEST_BYTES - i
            IN  IF ri = bytes_to_check /\ extra_nibble THEN 15
                ELSE IF ri <= bytes_to_check THEN 255
                ELSE 0]

make_check_mask(nz, le) == transmute(make_check_mask_bytes(nz), le)

\* hb & mb == 0 for word j of the digest and word j of the mask
WordPasses(hash, m, j, le) ==
    \A s \in 0 .. (WORD_BYTES - 1) : AndByte(WordByte(hash, j, s, le), m[j][s]) = 0

\* the test with any() in place of all()
Valid_AnyWord(hash, m, le) ==
    \E j \in 0 .. (MASK_WORDS - 1) : WordPasses(hash, m, j, le)

\* the test on the last word only
Valid_LastWord(hash, m, le) == WordPasses(hash, m, MASK_WORDS - 1, le)

\* the test of main.rs:70-73 on a digest and a mask
Valid(hash, m, le) ==
    \A j \in 0 .. (MASK_WORDS - 1) : WordPasses(hash, m, j, le)

(* ------------------------------ digests ------------------------------- *)

\* A digest whose rendering ends in exactly k zero characters: the character
\* before them is v (nonzero), the characters before that are all 0 (fill = 0)
\* or a fixed pattern that contains zeros (fill = 1).
DigestWith(k, v, fill) ==
    LET nib(p) == IF p >= DIGEST_NIBBLES - k THEN 0
                  ELSE IF p = DIGEST_NIBBLES - 1 - k THEN v
                  ELSE IF fill = 0 THEN 0
                  ELSE (7 * p + 3) % 16
    IN  [i \in 0 .. (DIGEST_BYTES - 1) |-> (16 * nib(2 * i)) + nib((2 * i) + 1)]

\* The digests of the concurrent search.  Candidate n gets a digest that ends
\* in exactly k zero characters and differs from the digest of the other
\* candidates in the character before them.
DigestFor(n, k) == DigestWith(k, 1 + (n % 15), 1)

\* When z zero nibbles are asked for, a candidate's digest ends in exactly z
\* zeros (a match) or in one zero less (the nearest miss); for z = 0 every
\* digest is a match.
TailsFor(z) == IF z = 0 THEN {0} ELSE {z - 1, z}

ShaFunctions(z) ==
    { [n \in Candidates |-> DigestFor(n, t[n])] : t \in [Candidates -> TailsFor(z)] }

NumZerosSet == (0 .. MaxNumZeros) \cup {DIGEST_NIBBLES}

\* digests the mask specification tests
ProbeDigests ==
    { DigestWith(k, v, fill) : k \in 0 .. DIGEST_NIBBLES, v \in {1, 8}, fill \in {0, 1} }

RECURSIVE TrailingZeros(_, _)
\* number of '0' characters at the end of the first len characters of hex
TrailingZeros(hex, len) ==
    IF len = 0 \/ hex[len] # "0" THEN 0 ELSE 1 + TrailingZeros(hex, len - 1)

(* --------------------------- initial states --------------------------- *)

InitCommon ==
    /\ count = quota
    /\ pc = "Idle"
    /\ exited = FALSE
    /\ mask = NoMask
    /\ spawned = 0
    /\ senders = 0
    /\ rx_alive = FALSE
    /\ queue = << >>
    /\ printed = << >>
    /\ w_pc = [i \in WorkerIds |-> "unspawned"]
    /\ w_start = [i \in WorkerIds |-> 0]
    /\ results_buf = [i \in WorkerIds |-> << >>]
    /\ examined = [i \in WorkerIds |-> << >>]
    /\ pushed = [i \in WorkerIds |-> << >>]
    /\ sent_log = << >>
    /\ refused = [i \in WorkerIds |-> 0]
    /\ probe_valid = "untested"

\* search(num_zeros, count, workers) is called
Init ==
    /\ num_zeros \in NumZerosSet
    /\ quota \in 0 .. MaxCount
    /\ workers \in 0 .. MaxWorkers
    /\ little_endian = TRUE
    /\ overflow_checks = FALSE
    /\ sha \in ShaFunctions(num_zeros)
    /\ probe = DigestFor(1, 0)
    /\ InitCommon

(* ----------------------------- coordinator ---------------------------- *)

\* spawn_workers, main.rs:45-47: the mask is built, the channel is created
BuildMask ==
    /\ pc = "Idle"
    /\ ~exited
    /\ mask' = make_check_mask(num_zeros, little_endian)
    /\ senders' = 1
    /\ rx_alive' = TRUE
    /\ pc' = "MaskBuilt"
    /\ UNCHANGED << num_zeros, quota, workers, little_endian, overflow_checks,
                    sha, count,
                    exited, spawned, queue, printed, w_pc, w_start, results_buf, examined, pushed, sent_log, refused, probe,
                    probe_valid >>

\* first batches that overlap in one candidate
FirstStart_Overlapping(i) == ((BATCH_SIZE - 1) * i) + 1

\* main.rs:54: the first candidate of worker i
FirstStart(i) == (BATCH_SIZE * i) + 1

\* spawn_workers, main.rs:49-56: one iteration of the spawning loop
Spawn ==
    /\ pc = "MaskBuilt"
    /\ ~exited
    /\ spawned < workers
    /\ senders' = senders + 1
    /\ w_pc' = [w_pc EXCEPT ![spawned] = "hash"]
    /\ w_start' = [w_start EXCEPT ![spawned] = FirstStart(spawned)]
    /\ spawned' = spawned + 1
    /\ UNCHANGED << num_zeros, quota, workers, little_endian, overflow_checks,
                    sha, count, pc,
                    exited, mask, rx_alive, queue, printed, results_buf,
                    examined, pushed, sent_log, refused, probe, probe_valid >>

\* spawn_workers returns (main.rs:90, result_tx is dropped) and search tests
\* its loop condition for the first time (main.rs:33)
\* a spawn_workers that returns without dropping its own sender
SpawnReturn_KeepsSender ==
    /\ pc = "MaskBuilt"
    /\ ~exited
    /\ spawned = workers
    /\ IF count > 0
       THEN /\ pc' = "Collecting"
            /\ UNCHANGED << rx_alive, queue >>
       ELSE /\ pc' = "Done"
            /\ rx_alive' = FALSE
            /\ queue' = << >>
    /\ UNCHANGED << num_zeros, quota, workers, little_endian, overflow_checks,
                    sha, count,
                    exited, mask, spawned, senders, printed, w_pc, w_start,
                    results_buf, examined, pushed, sent_log, refused, probe,
                    probe_valid >>

\* a collection loop that tests its condition after the body
SpawnReturn_AlwaysCollects ==
    /\ pc = "MaskBuilt"
    /\ ~exited
    /\ spawned = workers
    /\ senders' = senders - 1
    /\ pc' = "Collecting"
    /\ UNCHANGED << rx_alive, queue >>
    /\ UNCHANGED << num_zeros, quota, workers, little_endian, overflow_checks,
                    sha, count,
                    exited, mask, spawned, printed, w_pc, w_start, results_buf,
                    examined, pushed, sent_log, refused, probe, probe_valid >>

SpawnReturn ==
    /\ pc = "MaskBuilt"
    /\ ~exited
    /\ spawned = workers
    /\ senders' = senders - 1
    /\ IF count > 0
       THEN /\ pc' = "Collecting"
            /\ UNCHANGED << rx_alive, queue >>
       ELSE /\ pc' = "Done"
            /\ rx_alive' = FALSE
            /\ queue' = << >>
    /\ UNCHANGED << num_zeros, quota, workers, little_endian, overflow_checks,
                    sha, count,
                    exited, mask, spawned, printed, w_pc, w_start, results_buf, examined, pushed, sent_log, refused, probe,
                    probe_valid >>

\* a receive that takes the newest message of the channel
Recv_Newest ==
    /\ pc = "Collecting"
    /\ ~exited
    /\ queue # << >>
    /\ printed' = Append(printed, queue[Len(queue)])
    /\ count' = count - 1
    /\ IF count - 1 > 0
       THEN /\ pc' = "Collecting"
            /\ queue' = SubSeq(queue, 1, Len(queue) - 1)
            /\ UNCHANGED rx_alive
       ELSE /\ pc' = "Done"
            /\ rx_alive' = FALSE
            /\ queue' = << >>
    /\ UNCHANGED << num_zeros, quota, workers, little_endian, overflow_checks,
                    sha, exited,
                    mask, spawned, senders, w_pc, w_start, results_buf,
                    examined, pushed, sent_log, refused, probe, probe_valid >>

\* a receive that prints and forgets to count
Recv_NoDecrement ==
    /\ pc = "Collecting"
    /\ ~exited
    /\ queue # << >>
    /\ printed' = Append(printed, Head(queue))
    /\ queue' = Tail(queue)
    /\ UNCHANGED << num_zeros, quota, workers, little_endian, overflow_checks,
                    sha, count, pc,
                    exited, mask, spawned, senders, rx_alive, w_pc, w_start,
                    results_buf, examined, pushed, sent_log, refused,
                    probe, probe_valid >>

\* search, main.rs:33-40: a successful recv, the println, the decrement and
\* the next test of the loop condition; on count = 0 search returns and the
\* receiver is dropped with whatever is still queued
Recv ==
    /\ pc = "Collecting"
    /\ ~exited
    /\ queue # << >>
    /\ printed' = Append(printed, Head(queue))
    /\ count' = count - 1
    /\ IF count - 1 > 0
       THEN /\ pc' = "Collecting"
            /\ queue' = Tail(queue)
            /\ UNCHANGED rx_alive
       ELSE /\ pc' = "Done"
            /\ rx_alive' = FALSE
            /\ queue' = << >>
    /\ UNCHANGED << num_zeros, quota, workers, little_endian, overflow_checks,
                    sha, exited,
                    mask, spawned, senders, w_pc, w_start, results_buf,
                    examined, pushed, sent_log, refused, probe, probe_valid >>

\* a failed receive that ends the loop as if the quota had been met
RecvFail_ReturnsNormally ==
    /\ pc = "Collecting"
    /\ ~exited
    /\ queue = << >>
    /\ senders = 0
    /\ pc' = "Done"
    /\ rx_alive' = FALSE
    /\ UNCHANGED << num_zeros, quota, workers, little_endian, overflow_checks,
                    sha, count,
                    exited, mask, spawned, senders, queue, printed, w_pc,
                    w_start, results_buf, examined, pushed, sent_log,
                    refused, probe, probe_valid >>

\* search, main.rs:34-36: recv on an empty channel without senders fails and
\* expect panics
RecvFail ==
    /\ pc = "Collecting"
    /\ ~exited
    /\ queue = << >>
    /\ senders = 0
    /\ pc' = "Panicked"
    /\ rx_alive' = FALSE
    /\ UNCHANGED << num_zeros, quota, workers, little_endian, overflow_checks,
                    sha, count,
                    exited, mask, spawned, senders, queue, printed, w_pc,
                    w_start, results_buf, examined, pushed, sent_log,
                    refused, probe, probe_valid >>

\* main returns after search (main.rs:28-29), or the panic ends the main
\* thread: the process ends and no thread takes another step
ProcessExit ==
    /\ pc \in {"Done", "Panicked"}
    /\ ~exited
    /\ exited' = TRUE
    /\ UNCHANGED << num_zeros, quota, workers, little_endian, overflow_checks,
                    sha, count, pc,
                    mask, spawned, senders, rx_alive, queue, printed, w_pc,
                    w_start, results_buf, examined, pushed, sent_log,
                    refused, probe, probe_valid >>

(* ------------------------------- workers ------------------------------ *)

\* the stride without the worker count
NextStart_OwnBatchOnly(start) == start + BATCH_SIZE

\* the stride one batch too long
NextStart_SkipsBatch(start) == start + (BATCH_SIZE * workers) + BATCH_SIZE

\* the cursor left where it was
NextStart_Stuck(start) == start

\* main.rs:86 followed by main.rs:57-58: the cursor advances and the next
\* batch begins
NextStart(start) == start + (BATCH_SIZE * workers)

\* the candidates of the batch that begins at start, in loop order
BatchRange(start) == [j \in 1 .. BATCH_SIZE |-> start + j - 1]

RECURSIVE ScanBatch(_, _, _)
\* main.rs:58-78, the iterations n .. end-1 of the batch loop on the buffer
\* buf: each candidate is hashed, tested against the mask and pushed with the
\* rendering of its digest if it is valid
ScanBatch(n, end, buf) ==
    IF n >= end THEN buf
    ELSE ScanBatch(n + 1, end,
                   IF Valid(sha[n], mask, little_endian)
                   THEN Append(buf, << n, Hex(sha[n]) >>)
                   ELSE buf)

\* a batch loop that returns from the thread once the receiver is gone
Examine_StopsWhenReceiverGone(i) ==
    /\ w_pc[i] = "hash"
    /\ ~exited
    /\ w_start[i] + BATCH_SIZE - 1 <= MaxCand
    /\ IF rx_alive
       THEN /\ results_buf' = [results_buf EXCEPT
                                  ![i] = ScanBatch(w_start[i], w_start[i] + BATCH_SIZE, @)]
            /\ examined' = [examined EXCEPT ![i] = @ \o BatchRange(w_start[i])]
            /\ pushed' = [pushed EXCEPT ![i] =
                             @ \o [j \in 1 .. (Len(results_buf'[i]) - Len(results_buf[i])) |->
                                      results_buf'[i][Len(results_buf[i]) + j][1]]]
            /\ IF results_buf'[i] # << >>
               THEN /\ w_pc' = [w_pc EXCEPT ![i] = "drain"]
                    /\ UNCHANGED w_start
               ELSE /\ w_start' = [w_start EXCEPT ![i] = NextStart(@)]
                    /\ UNCHANGED w_pc
            /\ UNCHANGED senders
       ELSE /\ w_pc' = [w_pc EXCEPT ![i] = "stopped"]
            /\ senders' = senders - 1
            /\ UNCHANGED << results_buf, examined, pushed, w_start >>
    /\ UNCHANGED << num_zeros, quota, workers, little_endian, overflow_checks,
                    sha, count, pc,
                    exited, mask, spawned, rx_alive, queue, printed,
                    sent_log, refused, probe, probe_valid >>

\* main.rs:58-78, the batch loop of worker i, which touches nothing but the
\* worker's own variables.  The drain loop follows; for an empty results_buf
\* it falls through to the stride of main.rs:86.
Examine(i) ==
    /\ w_pc[i] = "hash"
    /\ ~exited
    /\ w_start[i] + BATCH_SIZE - 1 <= MaxCand
    /\ results_buf' = [results_buf EXCEPT
                          ![i] = ScanBatch(w_start[i], w_start[i] + BATCH_SIZE, @)]
    /\ examined' = [examined EXCEPT ![i] = @ \o BatchRange(w_start[i])]
    /\ pushed' = [pushed EXCEPT ![i] =
                     @ \o [j \in 1 .. (Len(results_buf'[i]) - Len(results_buf[i])) |->
                              results_buf'[i][Len(results_buf[i]) + j][1]]]
    /\ IF results_buf'[i] # << >>
       THEN /\ w_pc' = [w_pc EXCEPT ![i] = "drain"]
            /\ UNCHANGED w_start
       ELSE /\ w_start' = [w_start EXCEPT ![i] = NextStart(@)]
            /\ UNCHANGED w_pc
    /\ UNCHANGED << num_zeros, quota, workers, little_endian, overflow_checks,
                    sha, count, pc,
                    exited, mask, spawned, senders, rx_alive, queue, printed,
                    sent_log, refused, probe, probe_valid >>

\* a drain loop that ignores the refused send and goes on with the batch
Send_IgnoresRefusal(i) ==
    /\ w_pc[i] = "drain"
    /\ ~exited
    /\ IF rx_alive
       THEN /\ queue' = Append(queue, Head(results_buf[i]))
            /\ sent_log' = Append(sent_log, << i, Head(results_buf[i]) >>)
            /\ UNCHANGED refused
       ELSE /\ refused' = [refused EXCEPT ![i] = @ + 1]
            /\ UNCHANGED << queue, sent_log >>
    /\ results_buf' = [results_buf EXCEPT ![i] = Tail(@)]
    /\ IF Tail(results_buf[i]) = << >>
       THEN /\ w_start' = [w_start EXCEPT ![i] = NextStart(@)]
            /\ w_pc' = [w_pc EXCEPT ![i] = "hash"]
       ELSE UNCHANGED << w_start, w_pc >>
    /\ UNCHANGED << num_zeros, quota, workers, little_endian, overflow_checks,
                    sha, count, pc,
                    exited, mask, spawned, senders, rx_alive, printed,
                    examined, pushed, probe, probe_valid >>

\* a send on a channel of capacity 2, which waits while the channel is full
Send_Bounded(i) ==
    /\ w_pc[i] = "drain"
    /\ ~exited
    /\ IF rx_alive
       THEN /\ Len(queue) < 2
            /\ queue' = Append(queue, Head(results_buf[i]))
            /\ sent_log' = Append(sent_log, << i, Head(results_buf[i]) >>)
            /\ results_buf' = [results_buf EXCEPT ![i] = Tail(@)]
            /\ IF Tail(results_buf[i]) = << >>
               THEN /\ w_start' = [w_start EXCEPT ![i] = NextStart(@)]
                    /\ w_pc' = [w_pc EXCEPT ![i] = "hash"]
               ELSE UNCHANGED << w_start, w_pc >>
            /\ UNCHANGED << senders, refused >>
       ELSE /\ w_pc' = [w_pc EXCEPT ![i] = "stopped"]
            /\ results_buf' = [results_buf EXCEPT ![i] = << >>]
            /\ senders' = senders - 1
            /\ refused' = [refused EXCEPT ![i] = @ + 1]
            /\ UNCHANGED << queue, sent_log, w_start >>
    /\ UNCHANGED << num_zeros, quota, workers, little_endian, overflow_checks,
                    sha, count, pc,
                    exited, mask, spawned, rx_alive, printed, examined, pushed,
                    probe, probe_valid >>

\* a drain loop whose stride moves the cursor of every running worker
Send_SharedCursor(i) ==
    /\ w_pc[i] = "drain"
    /\ ~exited
    /\ IF rx_alive
       THEN /\ queue' = Append(queue, Head(results_buf[i]))
            /\ sent_log' = Append(sent_log, << i, Head(results_buf[i]) >>)
            /\ results_buf' = [results_buf EXCEPT ![i] = Tail(@)]
            /\ IF Tail(results_buf[i]) = << >>
               THEN /\ w_start' = [j \in WorkerIds |->
                                      IF w_pc[j] # "unspawned"
                                      THEN NextStart(w_start[j]) ELSE w_start[j]]
                    /\ w_pc' = [w_pc EXCEPT ![i] = "hash"]
               ELSE UNCHANGED << w_start, w_pc >>
            /\ UNCHANGED << senders, refused >>
       ELSE /\ w_pc' = [w_pc EXCEPT ![i] = "stopped"]
            /\ results_buf' = [results_buf EXCEPT ![i] = << >>]
            /\ senders' = senders - 1
            /\ refused' = [refused EXCEPT ![i] = @ + 1]
            /\ UNCHANGED << queue, sent_log, w_start >>
    /\ UNCHANGED << num_zeros, quota, workers, little_endian, overflow_checks,
                    sha, count, pc,
                    exited, mask, spawned, rx_alive, printed, examined, pushed,
                    probe, probe_valid >>

\* a drain loop that sends the first match of a batch and clears the rest
Send_FirstOnly(i) ==
    /\ w_pc[i] = "drain"
    /\ ~exited
    /\ IF rx_alive
       THEN /\ queue' = Append(queue, Head(results_buf[i]))
            /\ sent_log' = Append(sent_log, << i, Head(results_buf[i]) >>)
            /\ results_buf' = [results_buf EXCEPT ![i] = << >>]
            /\ w_start' = [w_start EXCEPT ![i] = NextStart(@)]
            /\ w_pc' = [w_pc EXCEPT ![i] = "hash"]
            /\ UNCHANGED << senders, refused >>
       ELSE /\ w_pc' = [w_pc EXCEPT ![i] = "stopped"]
            /\ results_buf' = [results_buf EXCEPT ![i] = << >>]
            /\ senders' = senders - 1
            /\ refused' = [refused EXCEPT ![i] = @ + 1]
            /\ UNCHANGED << queue, sent_log, w_start >>
    /\ UNCHANGED << num_zeros, quota, workers, little_endian, overflow_checks,
                    sha, count, pc,
                    exited, mask, spawned, rx_alive, printed, examined, pushed,
                    probe, probe_valid >>

\* main.rs:80-86, one iteration of the drain loop of worker i: the oldest
\* buffered match is sent.  A refused send makes the thread return, which
\* drops its buffer and its Sender; after the last accepted send of the batch
\* the cursor advances.
Send(i) ==
    /\ w_pc[i] = "drain"
    /\ ~exited
    /\ IF rx_alive
       THEN /\ queue' = Append(queue, Head(results_buf[i]))
            /\ sent_log' = Append(sent_log, << i, Head(results_buf[i]) >>)
            /\ results_buf' = [results_buf EXCEPT ![i] = Tail(@)]
            /\ IF Tail(results_buf[i]) = << >>
               THEN /\ w_start' = [w_start EXCEPT ![i] = NextStart(@)]
                    /\ w_pc' = [w_pc EXCEPT ![i] = "hash"]
               ELSE UNCHANGED << w_start, w_pc >>
            /\ UNCHANGED << senders, refused >>
       ELSE /\ w_pc' = [w_pc EXCEPT ![i] = "stopped"]
            /\ results_buf' = [results_buf EXCEPT ![i] = << >>]
            /\ senders' = senders - 1
            /\ refused' = [refused EXCEPT ![i] = @ + 1]
            /\ UNCHANGED << queue, sent_log, w_start >>
    /\ UNCHANGED << num_zeros, quota, workers, little_endian, overflow_checks,
                    sha, count, pc,
                    exited, mask, spawned, rx_alive, printed, examined, pushed,
                    probe, probe_valid >>

(* ---------------------------- specifications -------------------------- *)

Coordinator == BuildMask \/ Spawn \/ SpawnReturn \/ Recv \/ RecvFail

Next ==
    \/ BuildMask
    \/ Spawn
    \/ SpawnReturn
    \/ Recv
    \/ RecvFail
    \/ ProcessExit
    \/ \E i \in WorkerIds : Examine(i)
    \/ \E i \in WorkerIds : Send(i)

Spec == Init /\ [][Next]_vars

\* The fair runs are explored from the initial states in which the matching
\* candidates are the first c or all but the first c candidates, for every c.
InitFair ==
    /\ Init
    /\ num_zeros <= MaxNumZeros
    /\ \E c \in 0 .. MaxCand : \E first \in BOOLEAN :
           \A n \in Candidates :
               (sha[n] = DigestFor(n, num_zeros)) <=> ((n <= c) = first)

\* Every spawned thread is an OS thread that keeps being scheduled, and so is
\* the main thread until it returns; nothing forces the process to end at a
\* particular moment.
FairSpec ==
    /\ InitFair
    /\ [][Next]_vars
    /\ WF_vars(Coordinator)
    /\ \A i \in WorkerIds : WF_vars(Examine(i) \/ Send(i))

(* -------------------------- mask specification ------------------------ *)

\* make_check_mask and the test of main.rs:70-73 as pure functions: every
\* num_zeros up to MaxMaskZeros, both byte orders, every probe digest
InitMask ==
    /\ num_zeros \in 0 .. MaxMaskZeros
    /\ quota = 0
    /\ workers = 0
    /\ little_endian \in BOOLEAN
    /\ overflow_checks = FALSE
    /\ probe \in ProbeDigests
    /\ sha = [n \in Candidates |-> probe]
    /\ InitCommon

\* main.rs:70-73 applied to the probe digest and the mask that was built
ProbeTest ==
    /\ pc = "MaskBuilt"
    /\ probe_valid = "untested"
    /\ probe_valid' = IF Valid(probe, mask, little_endian) THEN "valid" ELSE "invalid"
    /\ UNCHANGED << num_zeros, quota, workers, little_endian, overflow_checks,
                    sha, count, pc,
                    exited, mask, spawned, senders, rx_alive, queue, printed,
                    w_pc, w_start, results_buf, examined, pushed,
                    sent_log, refused, probe >>

NextMask == BuildMask \/ ProbeTest

SpecMask == InitMask /\ [][NextMask]_vars

(* ------------- the search on a fixed-width candidate cursor ----------- *)

\* usize arithmetic: a value is one of 0 .. UsizeMax
UsizeMod == 2 ^ UsizeBits

UsizeMax == UsizeMod - 1

\* the result of an addition or multiplication does not fit a usize
Overflows(x) == x > UsizeMax

\* what a build without overflow checks keeps of a result
Wrap(x) == x % UsizeMod

\* the digests of the candidates 0 .. UsizeMax for num_zeros = z >= 1: at
\* most one candidate c matches
WrapShaFunctions(z) ==
    { [n \in 0 .. UsizeMax |-> DigestFor(n, IF n = c THEN z ELSE z - 1)] :
          c \in (-1) .. UsizeMax }

\* search is called in a build of either kind; BATCH_SIZE * i + 1 of
\* main.rs:54 fits a usize for every worker
InitWrap ==
    /\ num_zeros \in 1 .. MaxNumZeros
    /\ quota \in 1 .. MaxCount
    /\ workers \in 1 .. MaxWorkers
    /\ ~Overflows(FirstStart(workers - 1))
    /\ little_endian = TRUE
    /\ overflow_checks \in BOOLEAN
    /\ sha \in WrapShaFunctions(num_zeros)
    /\ probe = DigestFor(1, 0)
    /\ InitCommon

\* main.rs:86, start += BATCH_SIZE * workers on a usize: the worker goes to
\* its next batch; on overflow of the product or of the sum a build with
\* overflow checks panics the thread, which drops its sender, and a build
\* without them keeps the wrapped value
Stride(i) ==
    IF Overflows(BATCH_SIZE * workers) \/ Overflows(w_start[i] + (BATCH_SIZE * workers))
    THEN IF overflow_checks
         THEN /\ w_pc' = [w_pc EXCEPT ![i] = "panicked"]
              /\ senders' = senders - 1
              /\ UNCHANGED w_start
         ELSE /\ w_start' = [w_start EXCEPT ![i] = Wrap(@ + Wrap(BATCH_SIZE * workers))]
              /\ w_pc' = [w_pc EXCEPT ![i] = "hash"]
              /\ UNCHANGED senders
    ELSE /\ w_start' = [w_start EXCEPT ![i] = NextStart(@)]
         /\ w_pc' = [w_pc EXCEPT ![i] = "hash"]
         /\ UNCHANGED senders

\* main.rs:58-78 on a usize.  start + BATCH_SIZE of main.rs:58 overflows when
\* the batch touches the largest usize: a build with overflow checks panics
\* there; a build without them gets an end below start, an empty range, and
\* goes on to the stride with nothing examined.  The worker is followed
\* until it has examined UsizeMod candidates.
ExamineWrap(i) ==
    /\ w_pc[i] = "hash"
    /\ ~exited
    /\ Len(examined[i]) < UsizeMod
    /\ IF Overflows(w_start[i] + BATCH_SIZE)
       THEN /\ IF overflow_checks
               THEN /\ w_pc' = [w_pc EXCEPT ![i] = "panicked"]
                    /\ senders' = senders - 1
                    /\ UNCHANGED w_start
               ELSE Stride(i)
            /\ UNCHANGED << results_buf, examined, pushed >>
       ELSE /\ results_buf' = [results_buf EXCEPT
                                  ![i] = ScanBatch(w_start[i], w_start[i] + BATCH_SIZE, @)]
            /\ examined' = [examined EXCEPT ![i] = @ \o BatchRange(w_start[i])]
            /\ pushed' = [pushed EXCEPT ![i] =
                             @ \o [j \in 1 .. (Len(results_buf'[i]) - Len(results_buf[i])) |->
                                      results_buf'[i][Len(results_buf[i]) + j][1]]]
            /\ IF results_buf'[i] # << >>
               THEN /\ w_pc' = [w_pc EXCEPT ![i] = "drain"]
                    /\ UNCHANGED << w_start, senders >>
               ELSE Stride(i)
    /\ UNCHANGED << num_zeros, quota, workers, little_endian, overflow_checks,
                    sha, count, pc, exited, mask, spawned, rx_alive, queue,
                    printed, sent_log, refused, probe, probe_valid >>

\* main.rs:80-86 on a usize: the drain loop, followed by the stride when the
\* buffer is empty
SendWrap(i) ==
    /\ w_pc[i] = "drain"
    /\ ~exited
    /\ IF rx_alive
       THEN /\ queue' = Append(queue, Head(results_buf[i]))
            /\ sent_log' = Append(sent_log, << i, Head(results_buf[i]) >>)
            /\ results_buf' = [results_buf EXCEPT ![i] = Tail(@)]
            /\ IF Tail(results_buf[i]) = << >>
               THEN Stride(i)
               ELSE UNCHANGED << w_start, w_pc, senders >>
            /\ UNCHANGED refused
       ELSE /\ w_pc' = [w_pc EXCEPT ![i] = "stopped"]
            /\ results_buf' = [results_buf EXCEPT ![i] = << >>]
            /\ senders' = senders - 1
            /\ refused' = [refused EXCEPT ![i] = @ + 1]
            /\ UNCHANGED << queue, sent_log, w_start >>
    /\ UNCHANGED << num_zeros, quota, workers, little_endian, overflow_checks,
                    sha, count, pc, exited, mask, spawned, rx_alive, printed,
                    examined, pushed, probe, probe_valid >>

NextWrap ==
    \/ BuildMask
    \/ Spawn
    \/ SpawnReturn
    \/ Recv
    \/ RecvFail
    \/ ProcessExit
    \/ \E i \in WorkerIds : ExamineWrap(i)
    \/ \E i \in WorkerIds : SendWrap(i)

SpecWrap == InitWrap /\ [][NextWrap]_vars

(* ------------------------------ properties ---------------------------- *)

StrictlyIncreasing(s) == \A j \in 1 .. (Len(s) - 1) : s[j] < s[j + 1]

NoDuplicates(s) == \A a, b \in 1 .. Len(s) : a # b => s[a] # s[b]

\* candidates of the messages of a sequence of (n, hex) pairs
CandidatesOf(msgs) == [j \in 1 .. Len(msgs) |-> msgs[j][1]]

\* candidates worker i has put on the channel, in the order it sent them
SentBy(i) ==
    LET mine == SelectSeq(sent_log, LAMBDA e : e[1] = i)
    IN  [j \in 1 .. Len(mine) |-> mine[j][2][1]]

\* every (n, hex) pair that exists anywhere: buffered, queued, sent, printed
AllMatches ==
    UNION { {results_buf[i][j] : j \in 1 .. Len(results_buf[i])} : i \in WorkerIds }
    \cup {queue[j] : j \in 1 .. Len(queue)}
    \cup {sent_log[j][2] : j \in 1 .. Len(sent_log)}
    \cup {printed[j] : j \in 1 .. Len(printed)}

\* the nibble-wise definition of a match on the rendered digest
EndsInZeros(hex, z) == \A c \in (DIGEST_NIBBLES - z + 1) .. DIGEST_NIBBLES : hex[c] = "0"

\* C1: the coordinator prints one line per successful receive and nothing
\* else: printed + remaining = K, printed never exceeds K, remaining never
\* increases, and once the collecting loop has been entered the coordinator is
\* in Done exactly when remaining = 0.
C1_CoordinatorAccounting ==
    /\ [](/\ Len(printed) + count = quota
          /\ Len(printed) <= quota
          /\ (pc = "Done") <=> (count = 0 /\ pc \notin {"Idle", "MaskBuilt"}))
    /\ [][/\ count' <= count
          /\ printed' # printed =>
                /\ pc = "Collecting"
                /\ queue # << >>
                /\ printed' = Append(printed, Head(queue))
                /\ count' = count - 1]_vars

C1_Witness ==
    pc = "Done" /\ quota = MaxCount /\ Len(printed) = MaxCount /\ count = 0

\* C2: every match that is buffered, queued, sent or printed is sound: its
\* candidate was examined, its string is the rendering of that candidate's
\* digest, the digest ANDed with the mask is zero in all four words, and the
\* last num_zeros characters of the string are '0'.
C2_MatchesSound ==
    \A m \in AllMatches :
        /\ \E i \in WorkerIds : \E j \in 1 .. Len(examined[i]) : examined[i][j] = m[1]
        /\ m[2] = Hex(sha[m[1]])
        /\ \A j \in 0 .. (MASK_WORDS - 1) :
               IsZeroWord(AndWord(transmute(sha[m[1]], little_endian)[j], mask[j]))
        /\ num_zeros <= DIGEST_NIBBLES => EndsInZeros(m[2], num_zeros)

C2_Witness ==
    /\ num_zeros = 1
    /\ printed # << >>
    /\ printed[1][2][DIGEST_NIBBLES] = "0"
    /\ \E i \in WorkerIds : Len(examined[i]) > Len(pushed[i])

\* candidates the workers get to examine before any cursor passes MaxCand
SearchDomain == { n \in Candidates : (((n - 1) \div BATCH_SIZE) + 1) * BATCH_SIZE <= MaxCand }

MatchingCandidates ==
    { n \in SearchDomain : TrailingZeros(Hex(sha[n]), DIGEST_NIBBLES) >= num_zeros }

\* C3: with at least one worker and at least K matching candidates in the
\* search domain, a fair run leads to Done with exactly K lines printed.
C3_EventuallyDone ==
    (workers >= 1 /\ Cardinality(MatchingCandidates) >= quota)
        => <>(pc = "Done" /\ Len(printed) = quota)

C3_Witness ==
    /\ pc = "Done"
    /\ workers >= 1
    /\ num_zeros = 0
    /\ quota = 3
    /\ Len(printed) = 3

BatchesDone(i) == Len(examined[i]) \div BATCH_SIZE

RECURSIVE Occurrences(_, _, _)
\* how often candidate n occurs among the first len candidates worker i examined
Occurrences(i, n, len) ==
    IF len = 0 THEN 0
    ELSE (IF examined[i][len] = n THEN 1 ELSE 0) + Occurrences(i, n, len - 1)

RECURSIVE TotalOccurrences(_, _, _)
\* the same, summed over workers 0 .. w-1
TotalOccurrences(w, n, len) ==
    IF w = 0 THEN 0
    ELSE Occurrences(w - 1, n, len) + TotalOccurrences(w - 1, n, len)

\* C5: the j-th candidate of the m-th batch of worker i is
\* B*i + 1 + m*B*W + j, and for every M such that all W workers have completed
\* M batches, each of 1 .. B*W*M occurs exactly once in their first M batches
\* and nothing else occurs there.
C5_PartitionCoverage ==
    /\ \A i \in WorkerIds : \A p \in 1 .. Len(examined[i]) :
           LET m == (p - 1) \div BATCH_SIZE
               j == (p - 1) % BATCH_SIZE
           IN  examined[i][p] = (BATCH_SIZE * i) + 1 + (m * BATCH_SIZE * workers) + j
    /\ \A M \in 1 .. MaxCand :
           (workers >= 1 /\ \A i \in 0 .. (workers - 1) : BatchesDone(i) >= M) =>
               /\ \A n \in 1 .. (BATCH_SIZE * workers * M) :
                      TotalOccurrences(workers, n, M * BATCH_SIZE) = 1
               /\ \A i \in 0 .. (workers - 1) : \A p \in 1 .. (M * BATCH_SIZE) :
                      examined[i][p] \in 1 .. (BATCH_SIZE * workers * M)

C5_Witness ==
    /\ workers = MaxWorkers
    /\ \A i \in 0 .. (workers - 1) : BatchesDone(i) >= 1
    /\ BatchesDone(0) >= 2

\* C6: for every worker, the candidates it examined, the candidates it
\* pushed to its buffer and the candidates it sent are strictly increasing.
C6_WorkerMonotonic ==
    \A i \in WorkerIds :
        /\ StrictlyIncreasing(examined[i])
        /\ StrictlyIncreasing(pushed[i])
        /\ StrictlyIncreasing(SentBy(i))
        /\ StrictlyIncreasing(CandidatesOf(results_buf[i]))

C6_Witness ==
    \E i \in WorkerIds :
        /\ Len(SentBy(i)) >= 2
        /\ (SentBy(i)[1] - 1) \div BATCH_SIZE # (SentBy(i)[Len(SentBy(i))] - 1) \div BATCH_SIZE
        /\ Len(examined[i]) > Len(pushed[i])

\* C7: no candidate is put on the channel twice, by the same or by different
\* workers, and no candidate is printed twice.
C7_NoDuplicates ==
    /\ NoDuplicates([j \in 1 .. Len(sent_log) |-> sent_log[j][2][1]])
    /\ NoDuplicates(CandidatesOf(printed))

C7_Witness ==
    /\ Len(printed) >= 2
    /\ \E a, b \in 1 .. Len(sent_log) : sent_log[a][1] # sent_log[b][1]
    /\ \E i \in WorkerIds : Len(SentBy(i)) >= 2

RECURSIVE BitsSet(_, _)
\* number of bits set in bytes 0 .. len-1
BitsSet(bytes, len) ==
    IF len = 0 THEN 0 ELSE PopCount(bytes[len - 1]) + BitsSet(bytes, len - 1)

\* nibble p (0 = first hex character) of a byte array
NibbleAt(bytes, p) ==
    IF (p % 2) = 0 THEN bytes[p \div 2] \div 16 ELSE bytes[p \div 2] % 16

\* C8: for 0 <= Z <= 64 the mask, as 32 bytes in digest order, has exactly
\* 4*Z bits set: the trailing Z nibbles are 0xF and all others 0, that is
\* bytes 32-floor(Z/2) .. 31 are 0xFF and for odd Z byte 32-ceil(Z/2) is 0x0F.
C8_MaskWellFormed ==
    (mask # NoMask /\ num_zeros <= DIGEST_NIBBLES) =>
        LET bytes == MemoryBytes(mask, little_endian)
            half  == num_zeros \div 2
            odd   == (num_zeros % 2) = 1
        IN  /\ BitsSet(bytes, DIGEST_BYTES) = 4 * num_zeros
            /\ \A p \in 0 .. (DIGEST_NIBBLES - 1) :
                   NibbleAt(bytes, p) = IF p >= DIGEST_NIBBLES - num_zeros THEN 15 ELSE 0
            /\ \A i \in 0 .. (DIGEST_BYTES - 1) :
                   bytes[i] = IF i >= DIGEST_BYTES - half THEN 255
                              ELSE IF odd /\ i = DIGEST_BYTES - half - 1 THEN 15
                              ELSE 0

C8_Witness ==
    /\ mask # NoMask
    /\ num_zeros = 33
    /\ ~little_endian
    /\ MemoryBytes(mask, little_endian)[15] = 15
    /\ MemoryBytes(mask, little_endian)[16] = 255

\* C9: a digest whose rendering ends in exactly k zeros passes the word-wise
\* test with make_check_mask(Z) if Z <= k and fails it if Z > k, for every
\* Z in 0 .. 64.
C9_PredicateEquivalence ==
    (probe_valid # "untested" /\ num_zeros <= DIGEST_NIBBLES) =>
        ((probe_valid = "valid") <=>
            (num_zeros <= TrailingZeros(Hex(probe), DIGEST_NIBBLES)))

C9_Witness ==
    /\ probe_valid = "invalid"
    /\ num_zeros = 18
    /\ TrailingZeros(Hex(probe), DIGEST_NIBBLES) = 17

\* C10: a num_zeros above 64 is rejected: make_check_mask returns no mask
\* for it.
C10_OutOfRangeRejected ==
    num_zeros > DIGEST_NIBBLES => mask = NoMask

\* C11: a worker whose send was refused has stopped for good: it was refused
\* once, its buffer is gone, and no later step sends for it, examines for it
\* or moves its cursor; the stop is a return of the thread and does not put
\* the coordinator in its failure state.
C11_RefusedSendStops ==
    /\ [](\A i \in WorkerIds :
            /\ refused[i] <= 1
            /\ (w_pc[i] = "stopped") <=> (refused[i] = 1)
            /\ w_pc[i] = "stopped" => (results_buf[i] = << >> /\ pc # "Panicked"))
    /\ [][\A i \in WorkerIds :
            w_pc[i] = "stopped" =>
                /\ w_pc'[i] = "stopped"
                /\ w_start'[i] = w_start[i]
                /\ examined'[i] = examined[i]
                /\ pushed'[i] = pushed[i]
                /\ refused'[i] = refused[i]
                /\ SentBy(i)' = SentBy(i)]_vars

C11_Witness ==
    \E i \in WorkerIds :
        /\ w_pc[i] = "stopped"
        /\ results_buf[i] = << >>
        /\ Len(pushed[i]) > Len(SentBy(i)) + 1
        /\ \E j \in WorkerIds : j # i /\ w_pc[j] = "hash" /\ Len(examined[j]) > BATCH_SIZE

\* C12: while the receiver is alive a worker that has something to send can
\* send, whatever the length of the queue and whatever the coordinator does,
\* and the send puts the message at the end of the queue; a worker with a
\* batch to examine can examine it.  No worker step waits for another thread.
C12_SendNeverBlocks ==
    /\ [](\A i \in WorkerIds :
            /\ (w_pc[i] = "drain" /\ ~exited) => ENABLED Send(i)
            /\ (w_pc[i] = "hash" /\ ~exited /\ w_start[i] + BATCH_SIZE - 1 <= MaxCand)
                   => ENABLED Examine(i))
    /\ [][\A i \in WorkerIds :
            (w_pc[i] = "drain" /\ rx_alive /\ results_buf'[i] # results_buf[i]) =>
                /\ queue' = Append(queue, Head(results_buf[i]))
                /\ refused'[i] = 0]_vars

C12_Witness ==
    /\ rx_alive
    /\ printed = << >>
    /\ Len(queue) >= 3
    /\ \E i \in WorkerIds : w_pc[i] = "drain" /\ ENABLED Send(i)

\* candidates of the printed lines that were sent by worker i, in print order
PrintedBy(i) ==
    LET idx == SelectSeq([j \in 1 .. Len(printed) |-> j], LAMBDA j : sent_log[j][1] = i)
    IN  [k \in 1 .. Len(idx) |-> printed[idx[k]][1]]

\* C13: the printed lines are the first messages the channel accepted, in the
\* order it accepted them, and while the receiver lives the queue holds the
\* rest; the printed candidates of one worker are strictly increasing.
C13_PrintOrderIsArrivalOrder ==
    /\ Len(printed) <= Len(sent_log)
    /\ \A j \in 1 .. Len(printed) : printed[j] = sent_log[j][2]
    /\ rx_alive =>
           queue = [j \in 1 .. (Len(sent_log) - Len(printed)) |->
                       sent_log[Len(printed) + j][2]]
    /\ \A i \in WorkerIds : StrictlyIncreasing(PrintedBy(i))

C13_Witness ==
    /\ Len(printed) >= 3
    /\ printed[1][1] > printed[2][1]
    /\ \E i \in WorkerIds : Len(PrintedBy(i)) >= 2

\* C15: with no worker and a quota of at least one the coordinator never
\* prints, never ends in Done, and ends in its failure state: the first
\* receive finds the channel empty and without senders.
C15_ZeroWorkersFails ==
    /\ []((workers = 0 /\ quota >= 1) =>
             (printed = << >> /\ sent_log = << >> /\ pc # "Done" /\ count = quota))
    /\ (workers = 0 /\ quota >= 1) => <>(pc = "Panicked")

C15_Witness ==
    /\ workers = 0
    /\ quota >= 1
    /\ pc = "Panicked"
    /\ printed = << >>
    /\ exited

\* the variables only worker i writes once it is spawned
WorkerState(i) ==
    << w_pc[i], w_start[i], results_buf[i], examined[i], pushed[i], refused[i] >>

\* the variables only the coordinator writes
CoordinatorState == << count, pc, printed, spawned, rx_alive, exited >>

\* C16: the mask never changes once built; a step that changes the state of a
\* running worker changes the state of no other worker and none of the
\* coordinator's variables, so a coordinator step changes no running worker.
\* Only the queue and the sender count are written from both sides.
C16_Frame ==
    [][/\ mask # NoMask => mask' = mask
       /\ UNCHANGED << num_zeros, workers, sha, little_endian, overflow_checks >>
       /\ \A i \in WorkerIds :
            (w_pc[i] # "unspawned" /\ WorkerState(i)' # WorkerState(i)) =>
                /\ \A j \in WorkerIds : j # i => WorkerState(j)' = WorkerState(j)
                /\ CoordinatorState' = CoordinatorState]_vars

C16_Witness ==
    /\ printed # << >>
    /\ queue # << >>
    /\ \E i, j \in WorkerIds :
          /\ i # j
          /\ w_pc[i] = "drain"
          /\ w_pc[j] = "hash"
          /\ Len(examined[i]) > BATCH_SIZE
          /\ Len(examined[j]) >= BATCH_SIZE

\* C17: for num_zeros = 0 the mask is all zero, so that the digest with every
\* bit set and the digest of every candidate pass it, and
\* a worker pushes every candidate it examines, in increasing order, so each
\* completed batch contributes BATCH_SIZE matches.
C17_ZeroNibblesMatchesAll ==
    (num_zeros = 0 /\ mask # NoMask) =>
        /\ \A b \in 0 .. (DIGEST_BYTES - 1) : MemoryBytes(mask, little_endian)[b] = 0
        /\ Valid([b \in 0 .. (DIGEST_BYTES - 1) |-> 255], mask, little_endian)
        /\ \A n \in DOMAIN sha : Valid(sha[n], mask, little_endian)
        /\ \A i \in WorkerIds :
              /\ pushed[i] = examined[i]
              /\ StrictlyIncreasing(pushed[i])
              /\ Len(pushed[i]) = BATCH_SIZE * BatchesDone(i)

C17_Witness ==
    /\ num_zeros = 0
    /\ \E i \in WorkerIds :
          /\ Len(pushed[i]) = 2 * BATCH_SIZE
          /\ pushed[i] = examined[i]
          /\ w_pc[i] = "drain"
          /\ Len(results_buf[i]) = BATCH_SIZE

\* the candidates of a sequence whose rendered digest ends in num_zeros zeros
MatchesIn(cands) ==
    SelectSeq(cands, LAMBDA n : EndsInZeros(Hex(sha[n]), num_zeros))

\* C18: the buffer never holds more than one batch and is empty whenever a
\* batch starts; what a worker has sent and what it still buffers are together
\* the matches of the batches it has examined, in the order it found them, so
\* at a batch boundary it has sent exactly the matches of its completed
\* batches, and what it buffers belongs to the batch just examined.
C18_BatchFlush ==
    \A i \in WorkerIds :
        /\ Len(results_buf[i]) <= BATCH_SIZE
        /\ w_pc[i] # "drain" => results_buf[i] = << >>
        /\ pushed[i] = MatchesIn(examined[i])
        /\ w_pc[i] = "hash" => SentBy(i) = pushed[i]
        /\ w_pc[i] = "drain" =>
              /\ SentBy(i) \o CandidatesOf(results_buf[i]) = pushed[i]
              /\ \A j \in 1 .. Len(results_buf[i]) :
                    /\ results_buf[i][j][1] >= w_start[i]
                    /\ results_buf[i][j][1] < w_start[i] + BATCH_SIZE

C18_Witness ==
    /\ rx_alive
    /\ \E i \in WorkerIds :
          /\ w_pc[i] = "hash"
          /\ BatchesDone(i) >= 2
          /\ Len(SentBy(i)) >= 2
          /\ Len(pushed[i]) < Len(examined[i])

\* C19: no worker is stopped while the receiver lives, and between the return
\* of spawn_workers and the drop of the receiver there are as many senders as
\* workers; a worker stops only in its drain loop, after the receiver is
\* gone, with a match of the batch it has just examined; a worker whose batch
\* has no match goes on to its next batch.
C19_OnlyRefusalStops ==
    /\ [](rx_alive => \A i \in WorkerIds : w_pc[i] # "stopped")
    /\ []((rx_alive /\ pc = "Collecting") =>
             (senders = workers /\ \A i \in 0 .. (workers - 1) : w_pc[i] \in {"hash", "drain"}))
    /\ [](\A i \in WorkerIds :
            w_pc[i] = "stopped" =>
                /\ refused[i] = 1
                /\ pushed[i] # << >>
                /\ pushed[i][Len(pushed[i])] >= w_start[i]
                /\ examined[i][Len(examined[i])] = w_start[i] + BATCH_SIZE - 1)
    /\ [][\A i \in WorkerIds :
            /\ (w_pc[i] # "stopped" /\ w_pc'[i] = "stopped") =>
                   (w_pc[i] = "drain" /\ ~rx_alive)
            /\ (/\ w_pc[i] = "hash"
                /\ w_start[i] + BATCH_SIZE - 1 <= MaxCand
                /\ MatchesIn(BatchRange(w_start[i])) = << >>
                /\ examined'[i] # examined[i]) =>
                   (w_pc'[i] = "hash" /\ w_start'[i] = NextStart(w_start[i]))]_vars

C19_Witness ==
    /\ ~rx_alive
    /\ ~exited
    /\ \E i, j \in WorkerIds :
          /\ w_pc[i] = "stopped"
          /\ w_pc[j] = "hash"
          /\ pushed[j] = << >>
          /\ w_start[j] + BATCH_SIZE - 1 > MaxCand

\* C20: with a quota of zero the coordinator never receives and never prints:
\* it is never in Collecting nor in its failure state, and it ends in Done,
\* whatever the number of workers.
C20_ZeroCountNoReceive ==
    /\ [](quota = 0 => (printed = << >> /\ count = 0 /\ pc \notin {"Collecting", "Panicked"}))
    /\ quota = 0 => <>(pc = "Done" /\ printed = << >>)

C20_Witness ==
    /\ quota = 0
    /\ workers = 0
    /\ pc = "Done"
    /\ sent_log = << >>
    /\ exited

\* times candidate n has been hashed by the workers 0 .. w-1
RECURSIVE ExaminedTimes(_, _)
ExaminedTimes(w, n) ==
    IF w = 0 THEN 0
    ELSE Occurrences(w - 1, n, Len(examined[w - 1])) + ExaminedTimes(w - 1, n)

\* worker i is done with the candidates below the largest usize: its thread
\* has panicked, or its cursor is back below a candidate it has examined
PastTop(i) ==
    \/ w_pc[i] = "panicked"
    \/ /\ w_pc[i] = "hash"
       /\ examined[i] # << >>
       /\ w_start[i] <= examined[i][Len(examined[i])]

\* C14: on a fixed-width cursor no candidate is examined twice, and once
\* every worker is done with the candidates below the largest usize, every
\* positive usize has been examined exactly once.
C14_EveryCandidateOnce ==
    /\ \A n \in 1 .. UsizeMax : ExaminedTimes(workers, n) <= 1
    /\ (spawned = workers /\ \A i \in 0 .. (workers - 1) : PastTop(i)) =>
           \A n \in 1 .. UsizeMax : ExaminedTimes(workers, n) = 1

====
